---- MODULE Spec2Model ----
(***************************************************************************)
(* A model of EZServer: the registry of managed servers (src/src/config.ts) *)
(* with its JSON backing file, the manage flows that use it                 *)
(* (src/src/core.ts, manageServers), the first-boot supervision run         *)
(* (src/src/core.ts, runServerFirst), the downloader                        *)
(* (src/src/downloadUtils.ts, downloadFile), the create command             *)
(* (src/src/cli.ts), the Paper URL (src/unnamed/part_000, getPaperUrl),     *)
(* create with its child processes (src/src/core.ts, create and            *)
(* installForge) and the PROPERTIES action (src/src/core.ts,                *)
(* manageServers and parseProperties).                                      *)
(*                                                                          *)
(* Strings of the program are sequences of one-character strings, so that   *)
(* the empty string, a substring test and JSON escaping are what they are   *)
(* in the program.                                                          *)
(***************************************************************************)
EXTENDS Integers, Sequences, FiniteSets, TLC

VARIABLES
    config,         \* Config.config: the in-memory ConfigObject, [servers |-> <<...>>]
    configFile,     \* the text of ~/ezserver.json, as written by save()
    writeFailures,  \* how many fs.writeFileSync calls of save() have thrown so far
    lastCall,       \* the last call on the Config object: operation, argument, error, return value
    edits,          \* how many EDIT actions of manageServers have called editServer
    dirs,           \* the directories that exist on disk, by path
    lastManage,     \* the last run of manageServers: action, server name, answers given, effect
    javaPath,       \* runServerFirst: the javaPath argument of the run
    child,          \* runServerFirst: the child process: none, spawning, running, closed, failed
    exitCode,       \* runServerFirst: the code of the close event
    promise,        \* runServerFirst: the returned promise: none, pending, resolved, rejected
    timers,         \* runServerFirst: the times at which the pending setTimeout callbacks are due
    stdin,          \* runServerFirst: the writes made on child.stdin, in order
    chunks,         \* runServerFirst: how many stdout data events were handled
    now,            \* the clock, in seconds
    cmdPc,          \* create command: idle, firstBoot (awaiting the run), addToConfig, done
    options,        \* create command: the option yes, read again after the first start
    cmdServer,      \* create command: the server object built from the arguments
    firstBoot,      \* create command: the first start: none, ran, skipFirst, noJava
    added,          \* create command: addServer returned without an error
    logged,         \* create command: the messages logged so far
    dlPc,           \* downloadFile: idle, refused, requesting, dead, streaming, ended
    dlParent,       \* downloadFile: path.dirname(dest)
    dlPromise,      \* downloadFile: the returned promise: none, pending, resolved, rejected
    dlError,        \* downloadFile: the error the promise was rejected with
    dlStatus,       \* downloadFile: the outcome of the HTTP request
    requests,       \* downloadFile: how many HTTP requests were issued
    writer,         \* downloadFile: the write stream on dest: none, open, finished, errored
    received,       \* downloadFile: chunks of the response handed to the writer
    written,        \* downloadFile: chunks the writer has put in the file
    unhandled,      \* downloadFile: the rejections no handler received
    paperPc,        \* getPaperUrl: idle, requesting, resolved, rejected
    paperVersion,   \* getPaperUrl: the version argument
    paperBuilds,    \* getPaperUrl: res.data.builds of the upstream answer
    paperUrl,       \* getPaperUrl: the URL the promise resolved with
    paperError,     \* getPaperUrl: the error the promise was rejected with
    crPc,           \* create: idle, or the await it stands at (jar, tools, installer, build, forge), returned, thrown
    crArgs,         \* create: type, version, options.useBuild and hasJava of the call
    crError,        \* create: the message of the error thrown
    crRequests,     \* create: the URLs downloadFile was called with, in order
    crSpawns,       \* create: how many child processes were spawned
    crKind,         \* create: the child process: none, buildtools, forge
    crChild,        \* create: the child process: none, spawning, running, failed, closed
    crCode,         \* create: the code of the close event of the child
    crSettled,      \* create: the promise around the child: none, pending, true, false, void, rejected
    crJar,          \* create: where server.jar came from: none, download, build
    crWorkspace,    \* create: the directory <dir>/buildtools: none, present, removed
    crFound,        \* create: spigotJar, the file found in the buildtools directory
    propExists,     \* PROPERTIES action: server.properties exists in the server directory
    propFile,       \* PROPERTIES action: the lines of server.properties, in order
    propLast        \* PROPERTIES action: how the last run ended: none, notFound, TypeError, updated

regVars == <<config, configFile, writeFailures, lastCall, edits>>
manageVars == <<dirs, lastManage>>
supVars == <<javaPath, child, exitCode, promise, timers, stdin, chunks, now>>
cmdVars == <<cmdPc, options, cmdServer, firstBoot, added, logged>>
dlVars == <<dlPc, dlParent, dlPromise, dlError, dlStatus, requests, writer, received,
            written, unhandled>>
paperVars == <<paperPc, paperVersion, paperBuilds, paperUrl, paperError>>

coreVars == <<crPc, crArgs, crError, crRequests, crSpawns, crKind, crChild, crCode,
             crSettled, crJar, crWorkspace, crFound>>

\* The state of the parts modelled after the downloader.
propVars == <<propExists, propFile, propLast>>
moreVars == <<paperVars, coreVars, propVars>>

vars == <<config, configFile, writeFailures, lastCall, edits, dirs, lastManage,
          javaPath, child, exitCode, promise, timers, stdin, chunks, now,
          cmdPc, options, cmdServer, firstBoot, added, logged,
          dlPc, dlParent, dlPromise, dlError, dlStatus, requests, writer, received,
          written, unhandled,
          paperPc, paperVersion, paperBuilds, paperUrl, paperError,
          crPc, crArgs, crError, crRequests, crSpawns, crKind, crChild, crCode,
          crSettled, crJar, crWorkspace, crFound, propExists, propFile, propLast>>

----------------------------------------------------------------------------
(* Bounds of the model *)

MaxServers == 2
MaxWriteFailures == 1
MaxEdits == 1
MaxChunks == 2
MaxLines == 2
MaxTime == 6
MaxData == 2
MaxBuilds == 3
MaxProps == 3

----------------------------------------------------------------------------
(* Values *)

\* The JavaScript values undefined and null, where a record may stand.
Undefined == [js |-> "undefined"]
Null == [js |-> "null"]

\* A few names, paths and Java homes.  The name form of manageServers accepts
\* an empty line; Windows paths hold backslashes; a name may hold a quote.
Names == { <<>>, <<"a">>, <<"\"", "\\">> }
Paths == { <<"/", "a">>, <<".", ".">>, <<"C", "\\">> }
Javas == { <<>>, <<"j">> }
ServerType == { <<"p", "a", "p", "e", "r">>, <<"f", "o", "r", "g", "e">> }

ConfigServer == [name : Names, path : Paths, java : Javas, type : ServerType]

Server(name, path, java, type) ==
    [name |-> name, path |-> path, java |-> java, type |-> type]

\* The servers the callers hand to addServer: two that share a name, two that
\* share a path, one with an empty name, and the characters JSON escapes.
InputFirst == Server(<<"a">>, <<"/", "a">>, <<"j">>, <<"p", "a", "p", "e", "r">>)
InputSameName == Server(<<"a">>, <<".", ".">>, <<>>, <<"f", "o", "r", "g", "e">>)
InputSamePath ==
    Server(<<"\"", "\\">>, <<"/", "a">>, <<"j">>, <<"f", "o", "r", "g", "e">>)
InputEmptyName == Server(<<>>, <<".", ".">>, <<>>, <<"p", "a", "p", "e", "r">>)
InputOther ==
    Server(<<"\"", "\\">>, <<"C", "\\">>, <<"j">>, <<"p", "a", "p", "e", "r">>)

ServerInputs == {InputFirst, InputSameName, InputSamePath, InputEmptyName, InputOther}

\* The servers the create command is run for.
CreateInputs == {InputFirst, InputSameName, InputSamePath}

\* ConfigError(message, code)
NoError == [code |-> "NONE", message |-> "none"]
ServerExistsName ==
    [code |-> "SERVER_EXISTS", message |-> "Server with the same name already exists"]
ServerExistsPath ==
    [code |-> "SERVER_EXISTS", message |-> "Server with the same path already exists"]
ServerNotFound == [code |-> "SERVER_NOT_FOUND", message |-> "Server not found"]
SaveError ==
    [code |-> "SAVE_ERROR", message |-> "Error occurred while saving config file"]
LoadError ==
    [code |-> "LOAD_ERROR", message |-> "Config file not found or cannot be read"]

----------------------------------------------------------------------------
(* JSON.stringify and JSON.parse on the ConfigObject *)

RECURSIVE EscapeQuotesOnly(_)
\* As EscapeChars, but a backslash is written as it is.
EscapeQuotesOnly(s) ==
    IF s = <<>> THEN <<>>
    ELSE LET c == Head(s)
         IN  (IF c = "\"" THEN <<"\\", c>> ELSE <<c>>) \o EscapeQuotesOnly(Tail(s))

RECURSIVE EscapeChars(_)
\* The body of a JSON string literal: a quote and a backslash are escaped by
\* a backslash, every other character stands for itself.
EscapeChars(s) ==
    IF s = <<>> THEN <<>>
    ELSE LET c == Head(s)
         IN  (IF c \in {"\"", "\\"} THEN <<"\\", c>> ELSE <<c>>) \o EscapeChars(Tail(s))

QuoteJSONString(s) == <<"\"">> \o EscapeChars(s) \o <<"\"">>

RECURSIVE ScanString(_, _)
\* Reads a string literal from position i up to its closing quote; a
\* backslash makes the next character literal.
ScanString(lit, i) ==
    IF i > Len(lit) THEN <<>>
    ELSE IF lit[i] = "\"" THEN <<>>
    ELSE IF lit[i] = "\\"
         THEN (IF i + 1 > Len(lit) THEN <<>>
               ELSE <<lit[i + 1]>> \o ScanString(lit, i + 2))
    ELSE <<lit[i]>> \o ScanString(lit, i + 1)

ParseJSONString(lit) == ScanString(lit, 2)

StringifyServer(s) ==
    [name |-> QuoteJSONString(s.name), path |-> QuoteJSONString(s.path),
     java |-> QuoteJSONString(s.java), type |-> QuoteJSONString(s.type)]

ParseServer(o) ==
    [name |-> ParseJSONString(o.name), path |-> ParseJSONString(o.path),
     java |-> ParseJSONString(o.java), type |-> ParseJSONString(o.type)]

\* JSON.stringify(this.config, null, 2): the servers array, in order.
JSONStringify(cfg) ==
    [servers |-> [i \in 1..Len(cfg.servers) |-> StringifyServer(cfg.servers[i])]]

\* JSON.parse(text)
JSONParse(text) ==
    [servers |-> [i \in 1..Len(text.servers) |-> ParseServer(text.servers[i])]]

----------------------------------------------------------------------------
(* Config: the pure parts of its methods *)

\* Array.prototype.find: the first element satisfying Test, or undefined.
FindByName(servers, name) ==
    IF \E i \in 1..Len(servers) : servers[i].name = name
    THEN servers[CHOOSE i \in 1..Len(servers) :
                    /\ servers[i].name = name
                    /\ \A j \in 1..(i - 1) : servers[j].name # name]
    ELSE Undefined

FindByPath(servers, path) ==
    IF \E i \in 1..Len(servers) : servers[i].path = path
    THEN servers[CHOOSE i \in 1..Len(servers) :
                    /\ servers[i].path = path
                    /\ \A j \in 1..(i - 1) : servers[j].path # path]
    ELSE Undefined

\* JavaScript truthiness of the optional string property key of an object:
\* an absent property reads undefined, and the empty string is falsy.
Truthy(obj, key) == key \in DOMAIN obj /\ obj[key] # <<>>

\* checkServer: 1 a record has the name, 2 a record has the path, 0 neither.
checkServer(servers, server) ==
    IF FindByName(servers, server.name) # Undefined THEN 1
    ELSE IF FindByPath(servers, server.path) # Undefined THEN 2
    ELSE 0

\* As addServerGuard, without the test of the path.
addServerGuardNameOnly(servers, server) ==
    IF \E i \in 1..Len(servers) : servers[i].name = server.name
    THEN ServerExistsName
    ELSE NoError

\* As addServerGuard, with the two tests in the other order.
addServerGuardPathFirst(servers, server) ==
    IF \E i \in 1..Len(servers) : servers[i].path = server.path
    THEN ServerExistsPath
    ELSE IF \E i \in 1..Len(servers) : servers[i].name = server.name
    THEN ServerExistsName
    ELSE NoError

\* The guards of addServer: the error it throws before it changes anything.
addServerGuard(servers, server) ==
    IF FindByName(servers, server.name) # Undefined THEN ServerExistsName
    ELSE IF FindByPath(servers, server.path) # Undefined THEN ServerExistsPath
    ELSE NoError

\* As pushServer, putting the record first.
pushServerFirst(servers, server) == <<server>> \o servers

\* this.config.servers.push(server)
pushServer(servers, server) == Append(servers, server)

\* As filterServers, keeping no record.
filterServersNone(servers, name) == <<>>

\* this.config.servers.filter((s) => s.name !== name)
filterServers(servers, name) == SelectSeq(servers, LAMBDA s : s.name # name)

\* getServer({ name, path })
getServer(servers, query) ==
    IF Truthy(query, "name") THEN FindByName(servers, query.name)
    ELSE IF Truthy(query, "path") THEN FindByPath(servers, query.path)
    ELSE Null

----------------------------------------------------------------------------
(* Config: the methods *)

\* The constructor finds no file, writes { servers: [] } and loads it.
RegInit ==
    /\ config = [servers |-> <<>>]
    /\ configFile = JSONStringify([servers |-> <<>>])
    /\ writeFailures = 0
    /\ lastCall = [op |-> "new", arg |-> Null, err |-> NoError, ret |-> Undefined]
    /\ edits = 0

\* As SaveStep, with a write that reports success and leaves the file as it was.
SaveStepKeepsFile(cfg, writeOk, op, arg) ==
    /\ writeOk \/ writeFailures < MaxWriteFailures
    /\ configFile' = configFile
    /\ IF writeOk
       THEN /\ writeFailures' = writeFailures
            /\ lastCall' = [op |-> op, arg |-> arg, err |-> NoError, ret |-> Undefined]
       ELSE /\ writeFailures' = writeFailures + 1
            /\ lastCall' = [op |-> op, arg |-> arg, err |-> SaveError, ret |-> Undefined]

\* save(): fs.writeFileSync either rewrites the whole file or throws.
SaveStep(cfg, writeOk, op, arg) ==
    /\ writeOk \/ writeFailures < MaxWriteFailures
    /\ IF writeOk
       THEN /\ configFile' = JSONStringify(cfg)
            /\ writeFailures' = writeFailures
            /\ lastCall' = [op |-> op, arg |-> arg, err |-> NoError, ret |-> Undefined]
       ELSE /\ configFile' = configFile
            /\ writeFailures' = writeFailures + 1
            /\ lastCall' = [op |-> op, arg |-> arg, err |-> SaveError, ret |-> Undefined]

Save(writeOk) ==
    /\ config' = config
    /\ SaveStep(config, writeOk, "save", Null)

Load(readOk) ==
    /\ IF readOk
       THEN /\ config' = JSONParse(configFile)
            /\ lastCall' = [op |-> "load", err |-> NoError, ret |-> Undefined,
                            arg |-> [after |-> lastCall.op, afterErr |-> lastCall.err]]
       ELSE /\ config' = config
            /\ lastCall' = [op |-> "load", err |-> LoadError, ret |-> Undefined,
                            arg |-> [after |-> lastCall.op, afterErr |-> lastCall.err]]
    /\ UNCHANGED <<configFile, writeFailures>>

AddServer(server, writeOk) ==
    LET err == addServerGuard(config.servers, server)
    IN  IF err # NoError
        THEN /\ lastCall' = [op |-> "add", arg |-> server, err |-> err, ret |-> Undefined]
             /\ UNCHANGED <<config, configFile, writeFailures>>
        ELSE /\ Len(config.servers) < MaxServers
             /\ config' = [config EXCEPT !.servers = pushServer(config.servers, server)]
             /\ SaveStep(config', writeOk, "add", server)

RemoveServer(name, writeOk) ==
    /\ config' = [config EXCEPT !.servers = filterServers(config.servers, name)]
    /\ SaveStep(config', writeOk, "remove", name)

GetServer(query) ==
    /\ lastCall' = [op |-> "get", arg |-> query, err |-> NoError,
                    ret |-> getServer(config.servers, query)]
    /\ UNCHANGED <<config, configFile, writeFailures>>

\* The objects getServer is called with: { name }, { path } or {}.
Queries == [name : Names] \cup [path : Paths] \cup {<<>>}

----------------------------------------------------------------------------
(* editServer(old, new).  config.ts under src/ has no editServer; the     *)
(* manage flow calls it (core.ts:804).  It is modelled from the            *)
(* specification: edit(old, new) replaces one record in place, keeps the   *)
(* uniqueness of names and paths, and rewrites the file.                   *)

IndexOfName(servers, name) ==
    IF \E i \in 1..Len(servers) : servers[i].name = name
    THEN CHOOSE i \in 1..Len(servers) :
            /\ servers[i].name = name
            /\ \A j \in 1..(i - 1) : servers[j].name # name
    ELSE 0

editServerGuard(servers, old, new) ==
    LET k == IndexOfName(servers, old.name)
    IN  IF k = 0 THEN ServerNotFound
        ELSE IF \E i \in 1..Len(servers) : i # k /\ servers[i].name = new.name
             THEN ServerExistsName
        ELSE IF \E i \in 1..Len(servers) : i # k /\ servers[i].path = new.path
             THEN ServerExistsPath
        ELSE NoError

replaceServer(servers, old, new) ==
    [servers EXCEPT ![IndexOfName(servers, old.name)] = new]

EditServer(old, new, writeOk) ==
    LET err == editServerGuard(config.servers, old, new)
    IN  IF err # NoError
        THEN /\ lastCall' = [op |-> "edit", arg |-> new, err |-> err, ret |-> Undefined]
             /\ UNCHANGED <<config, configFile, writeFailures>>
        ELSE /\ config' = [config EXCEPT
                               !.servers = replaceServer(config.servers, old, new)]
             /\ SaveStep(config', writeOk, "edit", new)

----------------------------------------------------------------------------
(* manageServers: the EDIT action *)

EditFields == {"name", "java", "path", "type"}

EditValues(edit) ==
    CASE edit = "name" -> Names
      [] edit = "path" -> Paths
      [] edit = "java" -> Javas
      [] edit = "type" -> ServerType

\* Object.assign({}, server) with newServer[edit] = value
assignField(server, edit, value) == [server EXCEPT ![edit] = value]

\* The server is looked up by name; an unknown name, or an empty answer of
\* askJavaPath, ends the action before editServer is called.
ManageEdit(name, edit, value, writeOk) ==
    LET server == getServer(config.servers, [name |-> name])
    IN  /\ server \notin {Undefined, Null}
        /\ ~(edit = "java" /\ value = <<>>)
        /\ edits < MaxEdits
        /\ edits' = edits + 1
        /\ EditServer(server, assignField(server, edit, value), writeOk)
        /\ UNCHANGED <<manageVars, supVars, cmdVars, dlVars, moreVars>>

----------------------------------------------------------------------------
(* manageServers: adding and removing a record, and the DELETE action *)

\* As IncludesDotDot, for a test that lets every path through.
IncludesDotDotNever(path) == FALSE

\* server.path.includes("..")
IncludesDotDot(path) ==
    \E i \in 1..(Len(path) - 1) : path[i] = "." /\ path[i + 1] = "."

\* fs.rmSync(server.path, { recursive: true })
rmSync(existing, path) == existing \ {path}

\* As deleteProceeds, asking for the first confirmation alone.
deleteProceedsOnIntent(confirm, confirmPath) == confirm

\* The two prompts of the DELETE action: the path is confirmed only after
\* the intent was, and the removal starts only after both.
deleteProceeds(confirm, confirmPath) == confirm /\ confirmPath

\* The answers given: the second prompt is shown only after a yes to the first.
deleteAnswers(confirm, confirmPath) ==
    IF confirm THEN <<confirm, confirmPath>> ELSE <<confirm>>

Managed(action, name, answers) ==
    lastManage' = [action |-> action, name |-> name, answers |-> answers,
                   dirChanged |-> dirs' # dirs,
                   regChanged |-> config' # config \/ configFile' # configFile]

\* "Add server": checkServer first, addServer only when it returns 0.
ManageAddServer(server, writeOk) ==
    /\ IF checkServer(config.servers, server) # 0
       THEN UNCHANGED <<config, configFile, writeFailures, lastCall>>
       ELSE AddServer(server, writeOk)
    /\ dirs' = dirs
    /\ Managed("add", server.name, <<>>)
    /\ UNCHANGED edits

\* "Remove server": the name is chosen among the names of the records; the
\* directory stays.
ManageRemoveServer(name, writeOk) ==
    /\ \E i \in 1..Len(config.servers) : config.servers[i].name = name
    /\ RemoveServer(name, writeOk)
    /\ dirs' = dirs
    /\ Managed("remove", name, <<>>)
    /\ UNCHANGED edits

\* The DELETE action on the server of that name.  rmOk: fs.rmSync does not throw.
ManageDelete(name, confirm, confirmPath, rmOk, writeOk) ==
    LET server == getServer(config.servers, [name |-> name])
    IN  /\ server \notin {Undefined, Null}
        /\ IF ~deleteProceeds(confirm, confirmPath)
           THEN UNCHANGED <<config, configFile, writeFailures, lastCall, dirs>>
           ELSE IF server.path \notin dirs \/ IncludesDotDot(server.path) \/ ~rmOk
           THEN UNCHANGED <<config, configFile, writeFailures, lastCall, dirs>>
           ELSE /\ dirs' = rmSync(dirs, server.path)
                /\ RemoveServer(name, writeOk)
        /\ Managed("delete", name, deleteAnswers(confirm, confirmPath))
        /\ UNCHANGED edits

\* The user removes a directory outside the program.
EnvRemoveDir(path) ==
    /\ path \in dirs
    /\ dirs' = dirs \ {path}
    /\ UNCHANGED <<regVars, lastManage>>

ManageNext ==
    \/ \E s \in ServerInputs, ok \in BOOLEAN : ManageAddServer(s, ok) /\ UNCHANGED <<supVars, cmdVars, dlVars, moreVars>>
    \/ \E n \in Names, ok \in BOOLEAN : ManageRemoveServer(n, ok) /\ UNCHANGED <<supVars, cmdVars, dlVars, moreVars>>
    \/ \E n \in Names, c, cp, rm, ok \in BOOLEAN :
          ManageDelete(n, c, cp, rm, ok) /\ UNCHANGED <<supVars, cmdVars, dlVars, moreVars>>
    \/ \E p \in Paths : EnvRemoveDir(p) /\ UNCHANGED <<supVars, cmdVars, dlVars, moreVars>>

----------------------------------------------------------------------------
(* runServerFirst: the first-boot supervision run *)

\* As StopDelay, two seconds shorter.
StopDelayShorter == 5 - 2

\* setTimeout(..., 5000), in seconds
StopDelay == 5

\* The code of a close event: 0, another number, or null (ended by a signal).
ExitCodes == {"0", "1", "null"}

\* A line of the child's output, by the pattern it matches: regexDone,
\* regexChunkIO, regexThreadPool, or none of them.
Lines == {"done", "chunkIO", "threadPool", "other"}

\* A stdout data event carries one line or several.
Chunks == UNION { [1..n -> Lines] : n \in 1..MaxLines }

\* regex.test(data.toString().trim()): the patterns are not anchored, so the
\* test succeeds when some line of the chunk matches.
Test(kind, chunk) == \E i \in 1..Len(chunk) : chunk[i] = kind

\* resolve() and reject() settle a pending promise and do nothing afterwards.
resolve(p) == IF p = "pending" THEN "resolved" ELSE p
reject(p) == IF p = "pending" THEN "rejected" ELSE p

\* As closeHandler, rejecting when the code is not 0.
closeHandlerRejectsFailure(p, code) == IF code = "0" THEN resolve(p) ELSE reject(p)

\* child.on("close", (code) => { ...; resolve(); })
closeHandler(p, code) == resolve(p)

\* As errorHandler, leaving the promise as it is.
errorHandlerSilent(p) == p

\* child.on("error", () => { ...; resolve(); })
errorHandler(p) == resolve(p)

\* What the stdout handler does with a chunk: "stop" schedules the stop
\* write, "key" writes a keystroke now, "none" does neither.
stdoutReaction(chunk) ==
    IF Test("done", chunk) THEN "stop"
    ELSE IF Test("chunkIO", chunk) THEN "key"
    ELSE IF Test("threadPool", chunk) THEN "key"
    ELSE "none"

\* child.stdin.write(data); closed tells whether the child had closed by then.
Write(data) == Append(stdin, [data |-> data, at |-> now, closed |-> child = "closed"])

SupIdle ==
    /\ javaPath = <<>>
    /\ child = "none"
    /\ exitCode = "none"
    /\ promise = "none"
    /\ timers = <<>>
    /\ stdin = <<>>
    /\ chunks = 0
    /\ now = 0

\* The call: without a Java path it throws, which rejects the promise of the
\* async function; otherwise the child is spawned and the handlers are set.
RunServerFirst(java) ==
    /\ promise = "none"
    /\ javaPath' = java
    /\ IF java = <<>>
       THEN /\ promise' = "rejected"
            /\ child' = child
       ELSE /\ promise' = "pending"
            /\ child' = "spawning"
    /\ UNCHANGED <<exitCode, timers, stdin, chunks, now>>

\* child.on("spawn")
ChildSpawn ==
    /\ child = "spawning"
    /\ child' = "running"
    /\ UNCHANGED <<javaPath, exitCode, promise, timers, stdin, chunks, now>>

\* child.on("error"): the process could not be spawned.
ChildError ==
    /\ child = "spawning"
    /\ child' = "failed"
    /\ promise' = errorHandler(promise)
    /\ UNCHANGED <<javaPath, exitCode, timers, stdin, chunks, now>>

\* child.stdout.on("data")
StdoutData(chunk) ==
    /\ child = "running"
    /\ chunks < MaxChunks
    /\ chunks' = chunks + 1
    /\ LET r == stdoutReaction(chunk)
       IN  /\ timers' = IF r = "stop" THEN Append(timers, now + StopDelay) ELSE timers
           /\ stdin' = IF r = "key" THEN Write("a") ELSE stdin
    /\ UNCHANGED <<javaPath, child, exitCode, promise, now>>

\* A setTimeout callback runs, not before it is due: child.stdin.write("stop\n")
TimerFires ==
    /\ timers # <<>>
    /\ Head(timers) <= now
    /\ timers' = Tail(timers)
    /\ stdin' = Write("stop")
    /\ UNCHANGED <<javaPath, child, exitCode, promise, chunks, now>>

\* child.on("close")
ChildClose(code) ==
    /\ child = "running"
    /\ child' = "closed"
    /\ exitCode' = code
    /\ promise' = closeHandler(promise, code)
    /\ UNCHANGED <<javaPath, timers, stdin, chunks, now>>

Tick ==
    /\ now < MaxTime
    /\ now' = now + 1
    /\ UNCHANGED <<javaPath, child, exitCode, promise, timers, stdin, chunks>>

SupNext ==
    \/ \E j \in Javas : RunServerFirst(j) /\ UNCHANGED <<regVars, manageVars, cmdVars, dlVars, moreVars>>
    \/ ChildSpawn /\ UNCHANGED <<regVars, manageVars, cmdVars, dlVars, moreVars>>
    \/ ChildError /\ UNCHANGED <<regVars, manageVars, cmdVars, dlVars, moreVars>>
    \/ \E c \in Chunks : StdoutData(c) /\ UNCHANGED <<regVars, manageVars, cmdVars, dlVars, moreVars>>
    \/ TimerFires /\ UNCHANGED <<regVars, manageVars, cmdVars, dlVars, moreVars>>
    \/ \E code \in ExitCodes : ChildClose(code) /\ UNCHANGED <<regVars, manageVars, cmdVars, dlVars, moreVars>>
    \/ Tick /\ UNCHANGED <<regVars, manageVars, cmdVars, dlVars, moreVars>>

----------------------------------------------------------------------------
(* The create command of the CLI *)

\* As awaitDone, for a call that is not awaited.
awaitMissing(p) == TRUE

\* await runServerFirst(...): the command goes on once the promise is resolved.
awaitDone(p) == p = "resolved"

\* const { confirm } = await enquirer.prompt({ name: "addToConfig", ... }):
\* the answers object has the property addToConfig, and confirm is read.
promptedAddToConfig(answer) ==
    LET answers == [addToConfig |-> answer]
    IN  IF "confirm" \in DOMAIN answers THEN answers["confirm"] ELSE FALSE

CmdIdle ==
    /\ cmdPc = "idle"
    /\ options = [yes |-> FALSE]
    /\ cmdServer = Null
    /\ firstBoot = "none"
    /\ added = FALSE
    /\ logged = {}

\* The command up to the first start.  The server argument gives the name,
\* the directory, the answer of askJavaPath and the type; overwrite is the
\* option, confirmOverwrite the answer to "Do you want to overwrite it?",
\* createOk tells whether create() returns or throws after making the directory.
CreateCommand(server, yes, add, skipFirst, overwrite, confirmOverwrite, createOk) ==
    LET dir == server.path
        cancelled == dir \in dirs /\ ~overwrite /\ ~confirmOverwrite
        cleared == IF dir \in dirs THEN rmSync(dirs, dir) ELSE dirs
        has == checkServer(config.servers, server)
        conflict == (add \/ yes) /\ has # 0
        runs == createOk /\ server.java # <<>> /\ ~skipFirst
    IN  /\ cmdPc = "idle"
        /\ options' = [yes |-> yes]
        /\ cmdServer' = server
        /\ added' = FALSE
        /\ dirs' = IF cancelled THEN dirs
                   ELSE IF conflict THEN cleared
                   ELSE cleared \cup {dir}
        /\ IF cancelled
           THEN /\ cmdPc' = "done"
                /\ logged' = {"Server creation cancelled."}
                /\ firstBoot' = "none"
           ELSE IF conflict
           THEN /\ cmdPc' = "done"
                /\ logged' = {IF has = 1
                               THEN "Server with the same name already exists."
                               ELSE "Server with the same path already exists."}
                /\ firstBoot' = "none"
           ELSE IF ~createOk
           THEN /\ cmdPc' = "done"
                /\ logged' = {"An error occured while creating the server."}
                /\ firstBoot' = "none"
           ELSE /\ cmdPc' = IF runs THEN "firstBoot" ELSE "addToConfig"
                /\ logged' = {}
                /\ firstBoot' = IF server.java = <<>> THEN "noJava"
                                ELSE IF skipFirst THEN "skipFirst"
                                ELSE "ran"
        /\ IF ~cancelled /\ ~conflict /\ runs
           THEN RunServerFirst(server.java)
           ELSE UNCHANGED supVars
        /\ UNCHANGED <<regVars, lastManage, dlVars, moreVars>>

\* The rest of the command, after the first start: the prompt (or --yes),
\* checkServer, addServer and the messages.
CreateAddToConfig(answer, writeOk) ==
    LET addToConfig == IF options.yes THEN TRUE ELSE promptedAddToConfig(answer)
        code == checkServer(config.servers, cmdServer)
        created == logged \cup {"Server created successfully."}
    IN  /\ \/ cmdPc = "addToConfig"
           \/ cmdPc = "firstBoot" /\ awaitDone(promise)
        /\ cmdPc' = "done"
        /\ IF ~addToConfig
           THEN /\ logged' = created
                /\ added' = FALSE
                /\ UNCHANGED regVars
           ELSE IF code # 0
           THEN /\ logged' = created \cup
                        {IF code = 1
                         THEN "Server with the same name already exists."
                         ELSE "Server with the same path already exists."}
                /\ added' = FALSE
                /\ UNCHANGED regVars
           ELSE /\ AddServer(cmdServer, writeOk)
                /\ edits' = edits
                /\ added' = (lastCall'.err = NoError)
                /\ logged' = created \cup
                        (IF lastCall'.err = SaveError
                         THEN {"An error occurred while saving the config file."}
                         ELSE {})
                        \cup {"Server added to config."}
        /\ UNCHANGED <<manageVars, supVars, dlVars, moreVars, options, cmdServer, firstBoot>>

CreateNext ==
    \/ \E s \in CreateInputs, yes, add, skipFirst, ow, cow, ok \in BOOLEAN :
          CreateCommand(s, yes, add, skipFirst, ow, cow, ok)
    \/ \E answer, ok \in BOOLEAN : CreateAddToConfig(answer, ok)
    \/ ChildSpawn /\ UNCHANGED <<regVars, manageVars, cmdVars, dlVars, moreVars>>
    \/ ChildError /\ UNCHANGED <<regVars, manageVars, cmdVars, dlVars, moreVars>>
    \/ \E c \in Chunks : StdoutData(c) /\ UNCHANGED <<regVars, manageVars, cmdVars, dlVars, moreVars>>
    \/ TimerFires /\ UNCHANGED <<regVars, manageVars, cmdVars, dlVars, moreVars>>
    \/ \E code \in ExitCodes : ChildClose(code) /\ UNCHANGED <<regVars, manageVars, cmdVars, dlVars, moreVars>>
    \/ Tick /\ UNCHANGED <<regVars, manageVars, cmdVars, dlVars, moreVars>>

----------------------------------------------------------------------------
(* downloadFile *)

\* throw new Error("Destination directory does not exist.")
DestinationMissing ==
    [name |-> "Error", message |-> "Destination directory does not exist."]

\* The error of the writer's error event.
WriteFailed == [name |-> "Error", message |-> "write failed"]

\* What axios rejects with: a status outside 2xx, or no response at all.
RequestFailed(status) == [name |-> "AxiosError", message |-> status]

NoFailure == [name |-> "none", message |-> "none"]

\* The outcomes of the request: a response with a status, or a failed connection.
Statuses == {"200", "404", "500", "ECONNREFUSED"}

\* As destinationExists, for a call that does not look at the directory.
destinationUnchecked(parent, existing) == TRUE

\* fs.existsSync(path.dirname(dest))
destinationExists(parent, existing) == parent \in existing

\* axios resolves for a status 2xx and rejects otherwise (its default validateStatus).
axiosResolves(status) == status = "200"

DlIdle ==
    /\ dlPc = "idle"
    /\ dlParent = <<>>
    /\ dlPromise = "none"
    /\ dlError = NoFailure
    /\ dlStatus = "none"
    /\ requests = 0
    /\ writer = "none"
    /\ received = 0
    /\ written = 0
    /\ unhandled = {}

\* The call.  Without the directory of dest it throws, which rejects the
\* promise of the async function.  Otherwise the promise is made and its
\* executor runs up to its first await: the request is issued.
DownloadFile(parent) ==
    /\ dlPc = "idle"
    /\ dlParent' = parent
    /\ IF ~destinationExists(parent, dirs)
       THEN /\ dlPc' = "refused"
            /\ dlPromise' = "rejected"
            /\ dlError' = DestinationMissing
            /\ requests' = requests
       ELSE /\ dlPc' = "requesting"
            /\ dlPromise' = "pending"
            /\ dlError' = dlError
            /\ requests' = requests + 1
    /\ UNCHANGED <<dlStatus, writer, received, written, unhandled>>

\* The request is answered.  When axios rejects, the await throws inside the
\* async executor: the promise the executor returns is rejected and nothing
\* holds it, and neither resolve nor reject of the promise of downloadFile is
\* called.  When axios resolves, the write stream is opened and the handlers
\* are set.
Response(status) ==
    /\ dlPc = "requesting"
    /\ dlStatus' = status
    /\ IF axiosResolves(status)
       THEN /\ dlPc' = "streaming"
            /\ writer' = "open"
            /\ unhandled' = unhandled
       ELSE /\ dlPc' = "dead"
            /\ writer' = writer
            /\ unhandled' = unhandled \cup {RequestFailed(status)}
    /\ UNCHANGED <<dlParent, dlPromise, dlError, requests, received, written>>

\* data.on("data"), and data.pipe(writer) handing the chunk to the writer
DataChunk ==
    /\ dlPc = "streaming"
    /\ received < MaxData
    /\ received' = received + 1
    /\ UNCHANGED <<dlPc, dlParent, dlPromise, dlError, dlStatus, requests, writer,
                   written, unhandled>>

\* The writer puts a chunk it holds in the file.
WriterFlush ==
    /\ writer = "open"
    /\ written < received
    /\ written' = written + 1
    /\ UNCHANGED <<dlPc, dlParent, dlPromise, dlError, dlStatus, requests, writer,
                   received, unhandled>>

\* data.on("end", () => { progressBar.stop(); resolve(); })
StreamEnd ==
    /\ dlPc = "streaming"
    /\ dlPc' = "ended"
    /\ dlPromise' = resolve(dlPromise)
    /\ UNCHANGED <<dlParent, dlError, dlStatus, requests, writer, received, written,
                   unhandled>>

\* writer.on("error", (err) => { progressBar.stop(); reject(err); })
WriterError ==
    /\ writer = "open"
    /\ writer' = "errored"
    /\ dlPromise' = reject(dlPromise)
    /\ dlError' = IF dlPromise = "pending" THEN WriteFailed ELSE dlError
    /\ UNCHANGED <<dlPc, dlParent, dlStatus, requests, received, written, unhandled>>

\* The writer has written all it was given after the stream ended.
WriterFinish ==
    /\ dlPc = "ended"
    /\ writer = "open"
    /\ written = received
    /\ writer' = "finished"
    /\ UNCHANGED <<dlPc, dlParent, dlPromise, dlError, dlStatus, requests, received,
                   written, unhandled>>

DlNext ==
    \/ \E p \in Paths : DownloadFile(p) /\ UNCHANGED <<regVars, manageVars, supVars, cmdVars, moreVars>>
    \/ \E st \in Statuses : Response(st) /\ UNCHANGED <<regVars, manageVars, supVars, cmdVars, moreVars>>
    \/ DataChunk /\ UNCHANGED <<regVars, manageVars, supVars, cmdVars, moreVars>>
    \/ WriterFlush /\ UNCHANGED <<regVars, manageVars, supVars, cmdVars, moreVars>>
    \/ StreamEnd /\ UNCHANGED <<regVars, manageVars, supVars, cmdVars, moreVars>>
    \/ WriterError /\ UNCHANGED <<regVars, manageVars, supVars, cmdVars, moreVars>>
    \/ WriterFinish /\ UNCHANGED <<regVars, manageVars, supVars, cmdVars, moreVars>>

----------------------------------------------------------------------------
(* getPaperUrl: the download URL of a Paper server *)

\* The versions asked for and the build numbers the upstream lists.
Versions == {"1.20.1", "1.19.4", "1.8.8"}
BuildNumbers == {10, 11, 15}

\* res.data.builds: the builds in the order the upstream gives them.
BuildLists == UNION {[1..n -> BuildNumbers] : n \in 0..MaxBuilds}

\* A JavaScript number, where undefined may stand too.
Number(n) == [js |-> "number", value |-> n]

\* `${value}` of a template literal.
Interpolate(value) ==
    IF value = Undefined THEN "undefined" ELSE ToString(value.value)

RECURSIVE MaxOf(_)
MaxOf(builds) ==
    IF Len(builds) = 1 THEN builds[1]
    ELSE LET rest == MaxOf(Tail(builds))
         IN  IF builds[1] > rest THEN builds[1] ELSE rest

\* As latestBuild, taking the greatest build number.
latestBuildByValue(versionBuilds) ==
    IF Len(versionBuilds) = 0 THEN Undefined ELSE Number(MaxOf(versionBuilds))

\* versionBuilds[versionBuilds.length - 1]: undefined on an empty array.
latestBuild(versionBuilds) ==
    IF Len(versionBuilds) = 0 THEN Undefined
    ELSE Number(versionBuilds[Len(versionBuilds)])

\* The template literal of serverUrl, part by part.
serverUrl(version, build) ==
    <<"https://papermc.io/api/v2/projects/paper/versions/", version, "/builds/",
      Interpolate(build), "/downloads/paper-", version, "-", Interpolate(build), ".jar">>

PaperIdle ==
    /\ paperPc = "idle"
    /\ paperVersion = ""
    /\ paperBuilds = <<>>
    /\ paperUrl = <<>>
    /\ paperError = "none"

\* getPaperUrl(version): the request for the builds of the version is sent.
GetPaperUrl(version) ==
    /\ paperPc = "idle"
    /\ paperPc' = "requesting"
    /\ paperVersion' = version
    /\ UNCHANGED <<paperBuilds, paperUrl, paperError>>

\* The upstream answers with the builds of the version.
PaperBuilds(versionBuilds) ==
    /\ paperPc = "requesting"
    /\ paperBuilds' = versionBuilds
    /\ paperUrl' = serverUrl(paperVersion, latestBuild(versionBuilds))
    /\ paperPc' = "resolved"
    /\ UNCHANGED <<paperVersion, paperError>>

\* The request fails: the rejection of axios.get is the one of getPaperUrl.
PaperRequestFails ==
    /\ paperPc = "requesting"
    /\ paperPc' = "rejected"
    /\ paperError' = "AxiosError"
    /\ UNCHANGED <<paperVersion, paperBuilds, paperUrl>>

PaperNext ==
    \/ \E v \in Versions : GetPaperUrl(v) /\ UNCHANGED <<regVars, manageVars, supVars, cmdVars, dlVars, coreVars, propVars>>
    \/ \E b \in BuildLists : PaperBuilds(b) /\ UNCHANGED <<regVars, manageVars, supVars, cmdVars, dlVars, coreVars, propVars>>
    \/ PaperRequestFails /\ UNCHANGED <<regVars, manageVars, supVars, cmdVars, dlVars, coreVars, propVars>>

----------------------------------------------------------------------------
(* create: the Spigot and Forge branches, with the child processes they run *)

\* The types whose branch runs a child process or tests the version.
CreateTypes == {"spigot", "forge"}
CreateVersions == {"latest", "1.20.1"}

\* The code of the close event that follows a failed spawn.
SpawnFailureCode == "-2"
CloseCodes == {"0", "1", "null"}

CreateArgs == [type : CreateTypes, version : CreateVersions, useBuild : BOOLEAN,
               hasJava : BOOLEAN]

\* hasJava: options.javapath is given and the directory exists.
hasJava(javapath, exists) == javapath # <<>> /\ exists

\* As latestRejected, with no test of the version.
latestAccepted(version) == FALSE

\* version == "latest", the test of the GetBukkit branch.
latestRejected(version) == version = "latest"

GetBukkitUrl(version) == <<"https://download.getbukkit.org/spigot/spigot-", version, ".jar">>
BuildToolsUrl ==
    <<"https://hub.spigotmc.org/jenkins/job/BuildTools/lastSuccessfulBuild/artifact/target/BuildTools.jar">>
ForgeInstallerUrl(version) == <<"getDownloadURL", version, "forge">>

\* As buildCloseResult, reporting a success whatever the code.
buildCloseResultAlways(code) == "true"

\* The close handler of the BuildTools child: resolve(code === 0).
buildCloseResult(code) == IF code = "0" THEN "true" ELSE "false"

\* The error handler of the BuildTools child: resolve(false).
buildErrorResult == "false"

\* The close handler of the Forge installer: resolve(), whatever the code.
forgeCloseResult(code) == "void"

\* The error handler of the Forge installer: reject().
forgeErrorResult == "rejected"

\* resolve and reject act on a pending promise only.
Settle(value) == IF crSettled = "pending" THEN value ELSE crSettled

CoreIdle ==
    /\ crPc = "idle"
    /\ crArgs = [type |-> "none", version |-> "", useBuild |-> FALSE, hasJava |-> FALSE]
    /\ crError = "none"
    /\ crRequests = <<>>
    /\ crSpawns = 0
    /\ crKind = "none"
    /\ crChild = "none"
    /\ crCode = "none"
    /\ crSettled = "none"
    /\ crJar = "none"
    /\ crWorkspace = "none"
    /\ crFound = <<>>

Throw(message) ==
    /\ crPc' = "thrown"
    /\ crError' = message

\* cp.spawn of the BuildTools run or of the Forge installer, inside a new promise.
SpawnChild(kind) ==
    /\ crKind' = kind
    /\ crChild' = "spawning"
    /\ crSpawns' = crSpawns + 1
    /\ crSettled' = "pending"

\* create(name, type, version, options), up to its first await.
Create(type, version, useBuild, javapath, exists) ==
    /\ crPc = "idle"
    /\ crArgs' = [type |-> type, version |-> version, useBuild |-> useBuild,
                  hasJava |-> hasJava(javapath, exists)]
    /\ IF type = "spigot" /\ ~useBuild
       THEN IF latestRejected(version)
            THEN /\ Throw("Cannot use 'latest' version for Spigot.")
                 /\ crRequests' = crRequests
            ELSE /\ crPc' = "jar"
                 /\ crRequests' = Append(crRequests, GetBukkitUrl(version))
                 /\ crError' = crError
       ELSE IF type = "spigot"
       THEN IF ~hasJava(javapath, exists)
            THEN /\ Throw("You need Java to build the server.")
                 /\ crRequests' = crRequests
            ELSE /\ crPc' = "tools"
                 /\ crWorkspace' = "present"
                 /\ crRequests' = Append(crRequests, BuildToolsUrl)
                 /\ crError' = crError
       ELSE /\ crPc' = "installer"
            /\ crRequests' = Append(crRequests, ForgeInstallerUrl(version))
            /\ crError' = crError
    /\ (type = "spigot" /\ useBuild /\ hasJava(javapath, exists)) \/ crWorkspace' = crWorkspace
    /\ UNCHANGED <<crSpawns, crKind, crChild, crCode, crSettled, crJar, crFound>>

\* The awaited downloadFile settles; create goes on to the child process of
\* its branch, returns, or throws the error of the download.
Downloaded(ok) ==
    /\ crPc \in {"jar", "tools", "installer"}
    /\ IF ~ok
       THEN /\ Throw("download failed")
            /\ UNCHANGED <<crSpawns, crKind, crChild, crSettled, crJar>>
       ELSE IF crPc = "jar"
       THEN /\ crPc' = "returned"
            /\ crJar' = "download"
            /\ UNCHANGED <<crError, crSpawns, crKind, crChild, crSettled>>
       ELSE /\ crPc' = (IF crPc = "tools" THEN "build" ELSE "forge")
            /\ SpawnChild(IF crPc = "tools" THEN "buildtools" ELSE "forge")
            /\ UNCHANGED <<crError, crJar>>
    /\ UNCHANGED <<crArgs, crRequests, crCode, crWorkspace, crFound>>

\* child.on("spawn"): the spinner starts.
CoreChildSpawn ==
    /\ crChild = "spawning"
    /\ crChild' = "running"
    /\ UNCHANGED <<crPc, crArgs, crError, crRequests, crSpawns, crKind, crCode, crSettled, crJar,
                   crWorkspace, crFound>>

\* child.on("error"): the spawn failed.
CoreChildError ==
    /\ crChild = "spawning"
    /\ crChild' = "failed"
    /\ crSettled' = Settle(IF crKind = "buildtools" THEN buildErrorResult ELSE forgeErrorResult)
    /\ UNCHANGED <<crPc, crArgs, crError, crRequests, crSpawns, crKind, crCode, crJar,
                   crWorkspace, crFound>>

\* child.on("close", (code) => ...): after a failed spawn the code is the one
\* of the failure.
CoreChildClose(code) ==
    /\ \/ crChild = "running" /\ code \in CloseCodes
       \/ crChild = "failed" /\ code = SpawnFailureCode
    /\ crChild' = "closed"
    /\ crCode' = code
    /\ crSettled' = Settle(IF crKind = "buildtools" THEN buildCloseResult(code)
                           ELSE forgeCloseResult(code))
    /\ UNCHANGED <<crPc, crArgs, crError, crRequests, crSpawns, crKind, crJar,
                   crWorkspace, crFound>>

\* create goes on after the await on the promise around the child: it throws
\* on a failed build or a rejected installer, returns after the installer,
\* and goes on to look for the jar after a build that succeeded.
CreateResume ==
    /\ crPc \in {"build", "forge"}
    /\ crSettled \notin {"none", "pending"}
    /\ IF crPc = "build"
       THEN IF crSettled # "true"
            THEN Throw("BuildTools failed.")
            ELSE crPc' = "locate" /\ crError' = crError
       ELSE IF crSettled = "rejected"
            THEN Throw("undefined")
            ELSE crPc' = "returned" /\ crError' = crError
    /\ UNCHANGED <<crArgs, crRequests, crSpawns, crKind, crChild, crCode, crSettled, crJar,
                   crWorkspace, crFound>>

\* A file name, as its prefix, its middle and its suffix.
FileName(prefix, middle, suffix) == <<prefix, middle, suffix>>
BuildToolsJar == FileName("buildtools", "", ".jar")

\* What fs.readdirSync(buildtoolsDir) may list after a build, in its order.
Listings ==
    { <<BuildToolsJar>>,
      <<BuildToolsJar, FileName("spigot-", "1.20.1", ".jar")>>,
      <<BuildToolsJar, FileName("spigot-", "api", ".txt"), FileName("craftbukkit-", "1.20.1", ".jar")>>,
      <<FileName("spigot-", "api", ".txt"), FileName("spigot-", "1.20.1", ".jar"),
        FileName("spigot-", "1.19.4", ".jar")>> }

\* As spigotJarTest, by the suffix alone.
spigotJarTestSuffixOnly(file) == file[3] = ".jar"

\* file.startsWith("spigot-") && file.endsWith(".jar")
spigotJarTest(file) == file[1] = "spigot-" /\ file[3] = ".jar"

\* files.find(...): the first file that passes the test, or <<>> for undefined.
FindJar(files) ==
    IF \E i \in 1..Len(files) : spigotJarTest(files[i])
    THEN files[CHOOSE i \in 1..Len(files) :
                   spigotJarTest(files[i]) /\ \A j \in 1..(i - 1) : ~spigotJarTest(files[j])]
    ELSE <<>>

\* readdirSync and find: without a matching jar create throws.
LocateJar(files) ==
    /\ crPc = "locate"
    /\ crFound' = FindJar(files)
    /\ IF FindJar(files) # <<>>
       THEN crPc' = "move" /\ crError' = crError
       ELSE Throw("Spigot JAR not found.")
    /\ UNCHANGED <<crArgs, crRequests, crSpawns, crKind, crChild, crCode, crSettled, crJar,
                   crWorkspace>>

\* fs.renameSync(spigotJar, <dir>/server.jar); ok: it does not throw.
MoveJar(ok) ==
    /\ crPc = "move"
    /\ IF ok
       THEN crPc' = "remove" /\ crJar' = "build" /\ crError' = crError
       ELSE Throw("renameSync failed") /\ crJar' = crJar
    /\ UNCHANGED <<crArgs, crRequests, crSpawns, crKind, crChild, crCode, crSettled,
                   crWorkspace, crFound>>

\* fs.rmSync(<dir>/buildtools, { recursive: true }); ok: it does not throw.
RemoveWorkspace(ok) ==
    /\ crPc = "remove"
    /\ IF ok
       THEN crPc' = "returned" /\ crWorkspace' = "removed" /\ crError' = crError
       ELSE Throw("rmSync failed") /\ crWorkspace' = crWorkspace
    /\ UNCHANGED <<crArgs, crRequests, crSpawns, crKind, crChild, crCode, crSettled, crJar,
                   crFound>>

CoreNext ==
    \/ \E t \in CreateTypes, v \in CreateVersions, b \in BOOLEAN, j \in Javas, e \in BOOLEAN :
          Create(t, v, b, j, e) /\ UNCHANGED <<regVars, manageVars, supVars, cmdVars, dlVars, paperVars, propVars>>
    \/ \E ok \in BOOLEAN : Downloaded(ok) /\ UNCHANGED <<regVars, manageVars, supVars, cmdVars, dlVars, paperVars, propVars>>
    \/ CoreChildSpawn /\ UNCHANGED <<regVars, manageVars, supVars, cmdVars, dlVars, paperVars, propVars>>
    \/ CoreChildError /\ UNCHANGED <<regVars, manageVars, supVars, cmdVars, dlVars, paperVars, propVars>>
    \/ \E c \in CloseCodes \cup {SpawnFailureCode} : CoreChildClose(c) /\ UNCHANGED <<regVars, manageVars, supVars, cmdVars, dlVars, paperVars, propVars>>
    \/ CreateResume /\ UNCHANGED <<regVars, manageVars, supVars, cmdVars, dlVars, paperVars, propVars>>
    \/ \E f \in Listings : LocateJar(f) /\ UNCHANGED <<regVars, manageVars, supVars, cmdVars, dlVars, paperVars, propVars>>
    \/ \E ok \in BOOLEAN : MoveJar(ok) /\ UNCHANGED <<regVars, manageVars, supVars, cmdVars, dlVars, paperVars, propVars>>
    \/ \E ok \in BOOLEAN : RemoveWorkspace(ok) /\ UNCHANGED <<regVars, manageVars, supVars, cmdVars, dlVars, paperVars, propVars>>

----------------------------------------------------------------------------
(* manageServers: the PROPERTIES action, with parseProperties *)

\* Lines a server.properties file may hold: key=value pairs, a comment, a
\* blank line, an entry with an empty value, a value with "=" in it, a value
\* after a space, and a line with no "=".
PropLines ==
    { <<"k", "=", "v">>, <<"m", "=", "v">>, <<"#", "c">>, <<>>, <<"m", "=">>,
      <<"m", "=", "v", "=", "v">>, <<"m", "=", " ", "v">>, <<"m">> }

PropFiles == UNION {[1..n -> PropLines] : n \in 1..MaxProps}

\* The values the prompts of the action give.
PropValues == { <<"w">>, <<"v">> }

\* String.prototype.split(sep)
RECURSIVE Split(_, _)
Split(str, sep) ==
    IF \E i \in 1..Len(str) : str[i] = sep
    THEN LET i == CHOOSE k \in 1..Len(str) :
                     str[k] = sep /\ \A j \in 1..(k - 1) : str[j] # sep
         IN  <<SubSeq(str, 1, i - 1)>> \o Split(SubSeq(str, i + 1, Len(str)), sep)
    ELSE <<str>>

\* String.prototype.trim()
RECURSIVE Trim(_)
Trim(str) ==
    IF str = <<>> THEN str
    ELSE IF str[1] = " " THEN Trim(Tail(str))
    ELSE IF str[Len(str)] = " " THEN Trim(SubSeq(str, 1, Len(str) - 1))
    ELSE str

\* line.startsWith("#")
StartsWithHash(line) == Len(line) > 0 /\ line[1] = "#"

\* The lines parseProperties does not skip.
Read(line) == line # <<>> /\ ~StartsWithHash(line)

\* let [key, value] = line.split("="): value is undefined on a line without
\* "=", and value.trim() then throws a TypeError.
TrimThrows(lines) ==
    \E i \in 1..Len(lines) : Read(lines[i]) /\ Len(Split(lines[i], "=")) = 1

\* parsed[key] = value on an object: a key already there keeps its place.
Put(parsed, key, value) ==
    IF \E i \in 1..Len(parsed) : parsed[i].key = key
    THEN [i \in 1..Len(parsed) |->
             IF parsed[i].key = key THEN [key |-> key, value |-> value] ELSE parsed[i]]
    ELSE Append(parsed, [key |-> key, value |-> value])

\* The body of the loop of parseProperties, for a line on which it does not throw.
parseLine(parsed, line) ==
    IF ~Read(line) THEN parsed
    ELSE LET parts == Split(line, "=")
             key == Trim(parts[1])
             value == Trim(parts[2])
         IN  IF key # <<>> /\ value # <<>> THEN Put(parsed, key, value) ELSE parsed

\* parseProperties: the entries in the order of Object.entries.
RECURSIVE parseProperties(_)
parseProperties(lines) ==
    IF lines = <<>> THEN <<>>
    ELSE parseLine(parseProperties(SubSeq(lines, 1, Len(lines) - 1)), lines[Len(lines)])

Keys(parsed) == {parsed[i].key : i \in 1..Len(parsed)}

\* Object.entries(properties).map(([key, value]) => `${key}=${value}`).join("\n")
newProperties(parsed) ==
    [i \in 1..Len(parsed) |-> parsed[i].key \o <<"=">> \o parsed[i].value]

PropIdle ==
    /\ propExists = TRUE
    /\ propFile = <<>>
    /\ propLast = "none"

\* The PROPERTIES action on a server whose file is missing.
PropertiesMissing ==
    /\ ~propExists
    /\ propLast' = "notFound"
    /\ UNCHANGED <<propExists, propFile>>

\* The PROPERTIES action on a file parseProperties throws on: the action
\* ends with that error and writes nothing.
PropertiesThrows ==
    /\ propExists
    /\ TrimThrows(propFile)
    /\ propLast' = "TypeError"
    /\ UNCHANGED <<propExists, propFile>>

\* The PROPERTIES action: the property is chosen among the keys parsed, the
\* prompt gives its new value, and the file is written anew.
PropertiesEdit(property, value) ==
    /\ propExists
    /\ ~TrimThrows(propFile)
    /\ LET properties == parseProperties(propFile)
       IN  /\ property \in Keys(properties)
           /\ propFile' = newProperties(Put(properties, property, value))
    /\ propLast' = "updated"
    /\ UNCHANGED propExists

PropNext ==
    \/ PropertiesMissing /\ UNCHANGED <<regVars, manageVars, supVars, cmdVars, dlVars, paperVars, coreVars>>
    \/ PropertiesThrows /\ UNCHANGED <<regVars, manageVars, supVars, cmdVars, dlVars, paperVars, coreVars>>
    \/ \E k \in {<<"k">>, <<"m">>}, v \in PropValues :
          PropertiesEdit(k, v) /\ UNCHANGED <<regVars, manageVars, supVars, cmdVars, dlVars, paperVars, coreVars>>

\* The parts modelled after the downloader, before any call.
MoreIdle == PaperIdle /\ CoreIdle /\ PropIdle

----------------------------------------------------------------------------
\* The command starts on a registry left by earlier runs, empty or with one
\* record, and on a disk where the directory of that record exists or not.
CreateInit ==
    /\ \E servers \in {<<>>, <<InputFirst>>} :
          /\ config = [servers |-> servers]
          /\ configFile = JSONStringify(config)
    /\ writeFailures = 0
    /\ lastCall = [op |-> "new", arg |-> Null, err |-> NoError, ret |-> Undefined]
    /\ edits = 0
    /\ dirs \in {{}, Paths}
    /\ lastManage = [action |-> "none", name |-> <<>>, answers |-> <<>>,
                     dirChanged |-> FALSE, regChanged |-> FALSE]
    /\ SupIdle
    /\ CmdIdle
    /\ DlIdle
    /\ MoreIdle

\* One call of downloadFile, on a disk with some of the directories.
DlInit ==
    /\ RegInit
    /\ dirs \in SUBSET Paths
    /\ lastManage = [action |-> "none", name |-> <<>>, answers |-> <<>>,
                     dirChanged |-> FALSE, regChanged |-> FALSE]
    /\ SupIdle
    /\ CmdIdle
    /\ DlIdle
    /\ MoreIdle

RegNext ==
    \/ \E s \in ServerInputs, ok \in BOOLEAN : AddServer(s, ok) /\ UNCHANGED <<edits, manageVars, supVars, cmdVars, dlVars, moreVars>>
    \/ \E n \in Names, ok \in BOOLEAN : RemoveServer(n, ok) /\ UNCHANGED <<edits, manageVars, supVars, cmdVars, dlVars, moreVars>>
    \/ \E q \in Queries : GetServer(q) /\ UNCHANGED <<edits, manageVars, supVars, cmdVars, dlVars, moreVars>>
    \/ \E ok \in BOOLEAN : Save(ok) /\ UNCHANGED <<edits, manageVars, supVars, cmdVars, dlVars, moreVars>>
    \/ \E ok \in BOOLEAN : Load(ok) /\ UNCHANGED <<edits, manageVars, supVars, cmdVars, dlVars, moreVars>>

\* add, remove and the EDIT action, in any order.
EditNext ==
    \/ \E s \in ServerInputs, ok \in BOOLEAN : AddServer(s, ok) /\ UNCHANGED <<edits, manageVars, supVars, cmdVars, dlVars, moreVars>>
    \/ \E n \in Names, ok \in BOOLEAN : RemoveServer(n, ok) /\ UNCHANGED <<edits, manageVars, supVars, cmdVars, dlVars, moreVars>>
    \/ \E n \in Names, f \in EditFields, ok \in BOOLEAN :
          \E v \in EditValues(f) : ManageEdit(n, f, v, ok)

ManageIdle ==
    /\ dirs = Paths
    /\ lastManage = [action |-> "none", name |-> <<>>, answers |-> <<>>,
                     dirChanged |-> FALSE, regChanged |-> FALSE]

\* The PROPERTIES action on a server with some server.properties, or none.
PropInit ==
    /\ RegInit /\ ManageIdle /\ SupIdle /\ CmdIdle /\ DlIdle /\ PaperIdle /\ CoreIdle
    /\ \/ propExists = FALSE /\ propFile = <<>>
       \/ propExists = TRUE /\ propFile \in PropFiles
    /\ propLast = "none"

Init == RegInit /\ ManageIdle /\ SupIdle /\ CmdIdle /\ DlIdle /\ MoreIdle

Next == RegNext

Spec == Init /\ [][Next]_vars

SpecEdit == Init /\ [][EditNext]_vars

SpecManage == Init /\ [][ManageNext]_vars

SpecSup == Init /\ [][SupNext]_vars

SpecCreate == CreateInit /\ [][CreateNext]_vars

SpecDl == DlInit /\ [][DlNext]_vars

SpecPaper == Init /\ [][PaperNext]_vars

SpecCore == Init /\ [][CoreNext]_vars

SpecProp == PropInit /\ [][PropNext]_vars

----------------------------------------------------------------------------
(* Properties of the registry *)

NameTaken(s) == \E i \in 1..Len(config.servers) : config.servers[i].name = s.name
PathTaken(s) == \E i \in 1..Len(config.servers) : config.servers[i].path = s.path

HasEscapedChar(str) == \E i \in 1..Len(str) : str[i] \in {"\"", "\\"}

\* C1: in every state reached from the empty registry by add, remove and edit
\* calls, failing ones included, no two records share a name and no two
\* records share a path.
C1_UniqueNamesAndPaths ==
    \A i, j \in 1..Len(config.servers) :
        i # j => /\ config.servers[i].name # config.servers[j].name
                 /\ config.servers[i].path # config.servers[j].path

\* Two records are held, an edit went through, and the last call was refused
\* for a conflict.
C1_Witness ==
    /\ Len(config.servers) = 2
    /\ edits >= 1
    /\ lastCall.op \in {"add", "edit"}
    /\ lastCall.err.code = "SERVER_EXISTS"

\* C2, as amended: an add of a server whose name or path is taken fails with
\* ServerExists, the one code for both conflicts, with the message of the
\* name conflict when the name is taken and of the path conflict otherwise,
\* and leaves the records in memory and the file as they were.
C2_AddConflictLeavesRegistry ==
    [][\A s \in ServerInputs, ok \in BOOLEAN :
          (AddServer(s, ok) /\ (NameTaken(s) \/ PathTaken(s)))
              => /\ lastCall'.err.code = "SERVER_EXISTS"
                 /\ lastCall'.err =
                        (IF NameTaken(s) THEN ServerExistsName ELSE ServerExistsPath)
                 /\ config' = config
                 /\ configFile' = configFile]_vars

\* An add was refused for the path alone while the file lagged behind memory.
C2_Witness ==
    /\ lastCall.op = "add"
    /\ lastCall.err = ServerExistsPath
    /\ ~NameTaken(lastCall.arg)
    /\ configFile # JSONStringify(config)

\* C2, as claimed: the code of the failure tells which field clashes, so a
\* conflict of the path alone does not carry the code of a name conflict.
C2_AsClaimed ==
    [][\A s \in ServerInputs, ok \in BOOLEAN :
          (AddServer(s, ok) /\ (NameTaken(s) \/ PathTaken(s)))
              => /\ lastCall'.err \notin {NoError, SaveError}
                 /\ (~NameTaken(s) => lastCall'.err.code # ServerExistsName.code)
                 /\ config' = config
                 /\ configFile' = configFile]_vars

\* C3, as claimed: after an add that went through, of a server whose name and
\* path were free, getServer({ name }) with its name returns a record equal
\* to it in name, path, java and type.
C3_AsClaimed ==
    (lastCall.op = "add" /\ lastCall.err = NoError)
        => getServer(config.servers, [name |-> lastCall.arg.name]) = lastCall.arg

\* C4: a load that follows a save that went through leaves in memory the
\* sequence of records that was there before the save: the same records, the
\* same field values, the same order.
C4_SaveLoadRoundTrip ==
    [][(Load(TRUE) /\ lastCall.op = "save" /\ lastCall.err = NoError)
          => config' = config]_vars

\* A load followed a save of two records, one of them with characters that
\* JSON escapes.
C4_Witness ==
    /\ lastCall.op = "load"
    /\ lastCall.err = NoError
    /\ lastCall.arg.after = "save"
    /\ lastCall.arg.afterErr = NoError
    /\ Len(config.servers) = 2
    /\ \E i \in 1..2 : HasEscapedChar(config.servers[i].name)
    /\ \E i \in 1..2 : HasEscapedChar(config.servers[i].path)

\* C14: after an add or a remove that returned without an error, the records
\* read back from the file are the records in memory, in the same order.
C14_FileMatchesMemoryAfterSuccess ==
    (lastCall.op \in {"add", "remove"} /\ lastCall.err = NoError)
        => JSONParse(configFile) = config

\* An add went through after an earlier write had failed, and two records
\* are in memory and in the file.
C14_Witness ==
    /\ lastCall.op = "add"
    /\ lastCall.err = NoError
    /\ writeFailures = 1
    /\ Len(config.servers) = 2
    /\ Len(configFile.servers) = 2

\* The registry held no record with the name or the path of s: add(s) gets
\* as far as the write.
AddReachesWrite(s) == ~NameTaken(s) /\ ~PathTaken(s)

\* The sequence without the records of that name.
Without(servers, name) == SelectSeq(servers, LAMBDA r : r.name # name)

C30_RemoveDeletesExactlyTheNamed ==
    [][\A n \in Names, ok \in BOOLEAN :
          RemoveServer(n, ok)
              => /\ config'.servers = Without(config.servers, n)
                 /\ \A i \in 1..Len(config'.servers) : config'.servers[i].name # n
                 /\ Len(config'.servers) =
                        Cardinality({i \in 1..Len(config.servers) : config.servers[i].name # n})
                 /\ ~(\E i \in 1..Len(config.servers) : config.servers[i].name = n)
                        => config' = config
                 /\ lastCall'.err # ServerNotFound
                 /\ ok => lastCall'.err = NoError]_vars

\* A remove by the name of the first server returned and the other server,
\* with its escaped characters, is the one record of the registry.
C30_Witness ==
    /\ lastCall.op = "remove"
    /\ lastCall.err = NoError
    /\ lastCall.arg = InputFirst.name
    /\ config.servers = <<InputOther>>
    /\ configFile = JSONStringify(config)

----------------------------------------------------------------------------
(* Properties of the manage flows *)

\* C5: a step of the DELETE action removes the server directory or changes
\* the registry (memory or file) only when both confirmations, of the intent
\* and then of the path, were answered yes; when either is declined the
\* directories and the registry are as they were.
C5_DeleteNeedsBothConfirmations ==
    [][\A n \in Names, c, cp, rm, ok \in BOOLEAN :
          (/\ lastManage'.action = "delete"
           /\ lastManage'.name = n
           /\ lastManage'.answers = deleteAnswers(c, cp)
           /\ ManageDelete(n, c, cp, rm, ok))
              => /\ (dirs' # dirs \/ config' # config \/ configFile' # configFile)
                        => (c /\ cp)
                 /\ ~(c /\ cp) => UNCHANGED <<dirs, config, configFile>>]_vars

\* A DELETE action with both confirmations removed the directory and the
\* record while another record stayed.
C5_Witness ==
    /\ lastManage.action = "delete"
    /\ lastManage.answers = <<TRUE, TRUE>>
    /\ lastManage.dirChanged
    /\ lastManage.regChanged
    /\ Len(config.servers) = 1

\* Two dots in a row somewhere in the path.
HasDotDot(path) == \E i \in 1..(Len(path) - 1) : <<path[i], path[i + 1]>> = <<".", ".">>

\* C26: a DELETE action with both confirmations changes the registry only in
\* a step that removes the directory of the server; when that directory does
\* not exist or its path holds "..", the directories, the records in memory
\* and the file stay as they are, so the record of a directory that is gone
\* stays.
C26_RecordRemovedOnlyWithDirectory ==
    [][\A n \in Names, rm, ok \in BOOLEAN :
          (/\ lastManage'.action = "delete"
           /\ lastManage'.name = n
           /\ lastManage'.answers = <<TRUE, TRUE>>
           /\ ManageDelete(n, TRUE, TRUE, rm, ok))
              => LET server == FindByName(config.servers, n)
                 IN  /\ (config' # config \/ configFile' # configFile)
                           => /\ server.path \in dirs
                              /\ server.path \notin dirs'
                              /\ ~HasDotDot(server.path)
                     /\ (server.path \notin dirs \/ HasDotDot(server.path))
                           => UNCHANGED <<dirs, config, configFile>>]_vars

\* A DELETE action with both confirmations ran on a server whose directory
\* was gone: nothing changed and the record is still there.
C26_Witness ==
    /\ lastManage.action = "delete"
    /\ lastManage.answers = <<TRUE, TRUE>>
    /\ ~lastManage.dirChanged
    /\ ~lastManage.regChanged
    /\ \E i \in 1..Len(config.servers) :
          /\ config.servers[i].name = lastManage.name
          /\ config.servers[i].path \notin dirs
          /\ ~HasDotDot(config.servers[i].path)

----------------------------------------------------------------------------
(* Properties of the first-boot supervision run *)

StopWrites == Cardinality({i \in 1..Len(stdin) : stdin[i].data = "stop"})

\* C6, as claimed: during one run at most one stop command is written to the
\* child's input, whatever the stdout chunks are.
C6_AsClaimed == StopWrites <= 1

\* C7: a run started with a Java path never rejects; once the child has
\* closed, with any code, or could not be spawned, the promise is resolved.
C7_RunNeverRejects ==
    javaPath # <<>>
        => /\ promise # "rejected"
           /\ child \in {"closed", "failed"} => promise = "resolved"

\* The child closed with a code other than 0 and the run resolved.
C7_Witness ==
    /\ javaPath # <<>>
    /\ child = "closed"
    /\ exitCode \in {"1", "null"}
    /\ promise = "resolved"

\* The keystrokes written to the child's input, and the lines of a chunk
\* that match the pattern of a stall.
Keystrokes(writes) == Cardinality({i \in 1..Len(writes) : writes[i].data = "a"})
StallLines(chunk) == Cardinality({i \in 1..Len(chunk) : chunk[i] \in {"chunkIO", "threadPool"}})

\* C17, as claimed: the handling of a stdout chunk writes one keystroke for
\* each line of the chunk that matches a stall pattern, however many such
\* lines the chunk holds and whether or not a ready line is among them.
C17_AsClaimed ==
    [][\A c \in Chunks :
          StdoutData(c) => Keystrokes(stdin') = Keystrokes(stdin) + StallLines(c)]_vars

\* The states of the child, in the order a run goes through them.
ChildOrder ==
    { <<"none", "spawning">>, <<"spawning", "running">>, <<"spawning", "failed">>,
      <<"running", "closed">> }

C24_CompletesOnlyOnCloseOrError ==
    (javaPath # <<>> /\ promise # "none")
        => /\ promise = "resolved" <=> child \in {"closed", "failed"}
           /\ promise = "pending" <=> child \in {"spawning", "running"}

\* The child is still running after every chunk was handled and a stop was
\* written, at the end of the time, and the run is pending.
C24_Witness ==
    /\ child = "running"
    /\ promise = "pending"
    /\ chunks = MaxChunks
    /\ StopWrites >= 1
    /\ timers = <<>>
    /\ now = MaxTime

\* C25, as claimed: no stop command is written to the child's input after
\* the child has closed.
C25_AsClaimed ==
    \A i \in 1..Len(stdin) : stdin[i].data = "stop" => ~stdin[i].closed

----------------------------------------------------------------------------
(* Properties of the create command *)

\* C8, as amended: the create command adds the record only once the first
\* start is over: the run was made and its promise has resolved, with any
\* exit code or after a spawn error, or the run was skipped (the skip-first
\* option, or no Java path); the record is never added while the run is
\* pending.
C8_AddedAfterFirstBootIsOver ==
    added => \/ firstBoot \in {"skipFirst", "noJava"} /\ promise = "none"
             \/ /\ firstBoot = "ran"
                /\ promise = "resolved"
                /\ child \in {"closed", "failed"}

\* The record was added after a run whose child closed with a code other
\* than 0.
C8_Witness ==
    /\ added
    /\ firstBoot = "ran"
    /\ child = "closed"
    /\ exitCode = "1"
    /\ FindByName(config.servers, cmdServer.name) = cmdServer

\* C8, as claimed: the record is added only after a first start that was
\* made and ended well, the child closed with code 0.
C8_AsClaimed ==
    added => /\ firstBoot = "ran"
             /\ child = "closed"
             /\ exitCode = "0"

\* The messages of a conflict found by checkServer.
ConflictMessages ==
    { "Server with the same name already exists.",
      "Server with the same path already exists." }

\* C27, as claimed: a create command with --add or --yes that ends on a
\* conflict of name or path, before create is called, leaves the directories
\* on disk as they were.
C27_AsClaimed ==
    [][\A s \in CreateInputs, yes, add, skipFirst, ow, cow, ok \in BOOLEAN :
          (/\ cmdPc = "idle"
           /\ cmdPc' = "done"
           /\ yes \/ add
           /\ logged' # {}
           /\ logged' \subseteq ConflictMessages
           /\ CreateCommand(s, yes, add, skipFirst, ow, cow, ok))
              => dirs' = dirs]_vars

\* C28, as claimed: "Server added to config." is logged only when addServer
\* returned without an error and the record is in the registry.
C28_AsClaimed ==
    "Server added to config." \in logged
        => /\ added
           /\ lastCall.op = "add"
           /\ lastCall.err = NoError
           /\ FindByName(config.servers, cmdServer.name) = cmdServer

\* C29, as claimed: without --yes, after the answer yes to the prompt and
\* with no record of the name or the path of the server, the command ends
\* with the record in the registry; after the answer no, the registry is as
\* it was.
C29_AsClaimed ==
    [][\A answer, ok \in BOOLEAN :
          (/\ cmdPc \in {"addToConfig", "firstBoot"}
           /\ cmdPc' = "done"
           /\ ~options.yes
           /\ CreateAddToConfig(answer, ok))
              => IF answer
                 THEN checkServer(config.servers, cmdServer) = 0
                        => /\ lastCall'.op = "add"
                           /\ \E i \in 1..Len(config'.servers) :
                                 config'.servers[i] = cmdServer
                 ELSE UNCHANGED <<config, configFile>>]_vars

----------------------------------------------------------------------------
(* Properties of downloadFile *)

\* C9, as claimed: once the request was answered with status 404, the promise
\* of downloadFile is rejected with the typed error VersionNotFound.
C9_AsClaimed ==
    dlStatus = "404"
        => /\ dlPromise = "rejected"
           /\ dlError.name = "DownloadError"
           /\ dlError.message = "VERSION_NOT_FOUND"

C16_AsClaimed ==
    /\ dlPromise = "resolved"
          => /\ dlPc = "ended"
             /\ writer = "finished"
             /\ written = received
    /\ writer = "errored"
          => /\ dlPromise = "rejected"
             /\ dlError = WriteFailed

\* C23, as claimed: once the request has failed with an error other than a
\* 404, a status outside 2xx or a failed connection, the promise of
\* downloadFile is rejected with that error, and the error is no rejection
\* left unhandled.
C23_AsClaimed ==
    dlStatus \in {"500", "ECONNREFUSED"}
        => /\ dlPromise = "rejected"
           /\ dlError = RequestFailed(dlStatus)
           /\ unhandled = {}

----------------------------------------------------------------------------
(* Properties of getPaperUrl *)

\* C11: for every non-empty build list, in any order, the URL is built from
\* the Paper path template, the version asked for and the last build of the
\* list, also when a greater build number stands earlier in the list.
C11_LastBuildSelected ==
    (paperPc = "resolved" /\ Len(paperBuilds) > 0)
        => LET last == ToString(paperBuilds[Len(paperBuilds)])
           IN  paperUrl = <<"https://papermc.io/api/v2/projects/paper/versions/",
                            paperVersion, "/builds/", last, "/downloads/paper-",
                            paperVersion, "-", last, ".jar">>

\* A URL was built from a list whose greatest build is not the last one.
C11_Witness ==
    /\ paperPc = "resolved"
    /\ paperBuilds = <<10, 15, 11>>
    /\ paperUrl[4] = "11"
    /\ paperUrl[8] = "11"

\* C12, as claimed: on an empty build list the call fails with the error of
\* no builds and gives no URL.
C12_AsClaimed ==
    (paperPc \in {"resolved", "rejected"} /\ Len(paperBuilds) = 0 /\ paperError # "AxiosError")
        => /\ paperPc = "rejected"
           /\ paperError = "NO_BUILDS"
           /\ paperUrl = <<>>

----------------------------------------------------------------------------
(* Properties of create *)

\* C13: the BuildTools run is reported successful exactly when its process
\* closed with code 0; after a close with another code or a spawn error,
\* create does not return, the error it throws is the one of the failed build,
\* no server.jar comes from the build, and the process is spawned once only.
C13_BuildSucceedsOnlyOnCodeZero ==
    crKind = "buildtools"
        => /\ crSettled = "true" <=> (crChild = "closed" /\ crCode = "0")
           /\ crSettled = "false" <=> (crChild = "failed" \/ (crChild = "closed" /\ crCode # "0"))
           /\ crSettled = "false"
                 => /\ crPc \in {"build", "thrown"}
                    /\ crPc = "thrown" => crError = "BuildTools failed."
                    /\ crJar = "none"
           /\ crSpawns = 1

\* The build closed with code 1 and create has thrown.
C13_Witness ==
    /\ crKind = "buildtools"
    /\ crChild = "closed"
    /\ crCode = "1"
    /\ crPc = "thrown"
    /\ crError = "BuildTools failed."

\* C18, as claimed: a child process that closed with a code other than 0 is
\* not reported to the caller as a run that closed with code 0 is: create
\* returns normally after the Forge installer only when the code is 0.
C18_AsClaimed ==
    (crKind = "forge" /\ crPc = "returned") => crCode = "0"

\* C20: create for Spigot without useBuild and with the version "latest" has
\* thrown, and no download was requested, no child process was spawned and
\* the BuildTools branch was not entered.
C20_LatestRejectedUpFront ==
    (crPc # "idle" /\ crArgs.type = "spigot" /\ ~crArgs.useBuild /\ crArgs.version = "latest")
        => /\ crPc = "thrown"
           /\ crError = "Cannot use 'latest' version for Spigot."
           /\ crRequests = <<>>
           /\ crSpawns = 0
           /\ crKind = "none"
           /\ crJar = "none"

\* The call was made for Spigot, "latest", without useBuild, with Java at hand.
C20_Witness ==
    /\ crPc = "thrown"
    /\ crArgs = [type |-> "spigot", version |-> "latest", useBuild |-> FALSE,
                 hasJava |-> TRUE]

----------------------------------------------------------------------------
(* Properties of the PROPERTIES action *)

\* The key a line of the file gives a value to: the text before the first "=".
KeyOf(line) == Trim(Split(line, "=")[1])

\* C19, as claimed: the action leaves the file with the same number of lines,
\* the line of the property chosen now reading property=value, and every
\* other line as it was and where it was.
C19_AsClaimed ==
    [][\A k \in {<<"k">>, <<"m">>}, v \in PropValues :
          PropertiesEdit(k, v)
              => /\ Len(propFile') = Len(propFile)
                 /\ \A i \in 1..Len(propFile) :
                       IF Read(propFile[i]) /\ KeyOf(propFile[i]) = k
                       THEN propFile'[i] = k \o <<"=">> \o v
                       ELSE propFile'[i] = propFile[i]]_vars

\* C22: in the BuildTools branch the workspace is removed only after a jar
\* found in it, with the prefix "spigot-" and the suffix ".jar", has been
\* moved to server.jar, which happens only after the build succeeded; and
\* when no file of the workspace matches, create has thrown, the workspace is
\* still there and there is no server.jar.
C22_WorkspaceRemovedAfterMove ==
    crKind = "buildtools"
        => /\ crWorkspace = "removed" => (crJar = "build" /\ crPc = "returned")
           /\ crJar = "build"
                 => /\ crFound # <<>>
                    /\ crFound[1] = "spigot-"
                    /\ crFound[3] = ".jar"
                    /\ crSettled = "true"
           /\ crFound # <<>> => crSettled = "true"
           /\ (crPc = "thrown" /\ crError = "Spigot JAR not found.")
                 => /\ crFound = <<>>
                    /\ crWorkspace = "present"
                    /\ crJar = "none"
           /\ crPc = "returned" => crWorkspace = "removed"

\* The build succeeded, the second file listed was the first to match and
\* was moved, and the workspace was removed.
C22_Witness ==
    /\ crKind = "buildtools"
    /\ crPc = "returned"
    /\ crWorkspace = "removed"
    /\ crJar = "build"
    /\ crFound = <<"spigot-", "1.20.1", ".jar">>

====
